---- MODULE Spec2Model ----
(***************************************************************************)
(* Word2Vec data preparation notebook: the sliding-window cell that turns  *)
(* the token list into the CBOW and the Skip-gram sample arrays, together  *)
(* with the vocabulary the cell resolves tokens with.                      *)
(*                                                                         *)
(* Python sequences are 0-based; the TLA+ sequences below are 1-based, so  *)
(* Python's s[i] is s[i+1] here.  All row / position numbers of the model  *)
(* (pos, center_idx, idx, log entries) are the Python 0-based numbers.     *)
(***************************************************************************)
EXTENDS Integers, Sequences, FiniteSets, TLC

\* ---------------------------------------------------------------- bounds
MaxLen == 5        \* longest token list explored
NegW == 1          \* window_size is explored down to -NegW
MaxW == 2          \* largest window_size explored
TOP_TOKENS == 1    \* the notebook keeps 20000; scaled down so that tokens fall out of the vocabulary
StoreSpan == 30    \* identifiers 0..StoreSpan and Int32Max-StoreSpan..Int32Max are stored
MaxFolders == 2    \* most folders given to process_reviews
MaxEntries == 2    \* most entries os.scandir yields for a folder
MaxReviews == 3    \* considered_num_reviews is explored in 0..MaxReviews

\* tokens as process_file returns them (lower-cased lemmas)
Alphabet == {"a", "b", "c"}

WRange == (-NegW)..MaxW

\* ------------------------------------------------------- Python helpers
Min2(a, b) == IF a < b THEN a ELSE b
Max2(a, b) == IF a > b THEN a ELSE b

\* list[a:b] of Python: negative bounds count from the end, both are clamped
PySlice(s, a, b) ==
  LET n  == Len(s)
      lo == IF a < 0 THEN Max2(a + n, 0) ELSE Min2(a, n)
      hi == IF b < 0 THEN Max2(b + n, 0) ELSE Min2(b, n)
  IN  IF lo < hi THEN SubSeq(s, lo + 1, hi) ELSE << >>

\* variant: one element short
RangeLen_OneLess(a, b) == Max2(b - a - 1, 0)

\* len(range(a, b))
RangeLen(a, b) == IF b > a THEN b - a ELSE 0

\* variant: the range is walked from its end
RangeAt_Reversed(a, b, k) == b - 1 - k

\* range(a, b)[k]
RangeAt(a, b, k) == a + k

\* variant: cells of 16 bits
AsInt32_Narrow(x) ==
  IF -32768 <= x /\ x <= 32767 THEN x
  ELSE LET m == x % 65536
       IN  IF m >= 32768 THEN m - 65536 ELSE m

\* value kept by a cell of dtype np.int32: values of the int32 range are kept,
\* any other is reduced modulo 2^32 into it
Int32Max == 2147483647
AsInt32(x) ==
  IF (-Int32Max) - 1 <= x /\ x <= Int32Max THEN x
  ELSE LET two32 == 65536 * 65536
           half  == 32768 * 65536
       IN  ((x + half) % two32) - half

\* variant: a negative dimension is silently taken as 0
np_zeros_Clamped(nrows, ncols) ==
  LET nr == IF nrows < 0 THEN 0 ELSE nrows
      nc == IF ncols < 0 THEN 0 ELSE ncols
  IN  [ok |-> TRUE, err |-> "",
       arr |-> [nrows |-> nr, ncols |-> nc,
                rows |-> [r \in 1..nr |-> [k \in 1..nc |-> 0]]]]

\* np.zeros((nrows, ncols), dtype=np.int32); a negative dimension raises ValueError
np_zeros(nrows, ncols) ==
  IF nrows < 0 \/ ncols < 0
  THEN [ok |-> FALSE, err |-> "ValueError",
        arr |-> [nrows |-> -1, ncols |-> -1, rows |-> << >>]]
  ELSE [ok |-> TRUE, err |-> "",
        arr |-> [nrows |-> nrows, ncols |-> ncols,
                 rows |-> [r \in 1..nrows |-> [k \in 1..ncols |-> 0]]]]

\* the name is not bound yet
NoArray == [nrows |-> -1, ncols |-> -1, rows |-> << >>]

\* variant: arr[:] = sample, every row is written
np_setrow_All(arr, i, sample) ==
  IF i < -arr.nrows \/ i >= arr.nrows
  THEN [ok |-> FALSE, err |-> "IndexError", arr |-> arr]
  ELSE IF Len(sample) # arr.ncols /\ Len(sample) # 1
  THEN [ok |-> FALSE, err |-> "ValueError", arr |-> arr]
  ELSE LET row == [k \in 1..arr.ncols |->
                     AsInt32(IF Len(sample) = 1 THEN sample[1] ELSE sample[k])]
       IN  [ok |-> TRUE, err |-> "",
            arr |-> [arr EXCEPT !.rows = [r \in 1..arr.nrows |-> row]]]

\* arr[i] = sample of numpy: negative i counts from the end, an index out of
\* range raises IndexError, a sample that does not broadcast raises ValueError
np_setrow(arr, i, sample) ==
  IF i < -arr.nrows \/ i >= arr.nrows
  THEN [ok |-> FALSE, err |-> "IndexError", arr |-> arr]
  ELSE IF Len(sample) # arr.ncols /\ Len(sample) # 1
  THEN [ok |-> FALSE, err |-> "ValueError", arr |-> arr]
  ELSE LET r == (IF i < 0 THEN i + arr.nrows ELSE i) + 1  \* 1-based
           row == [k \in 1..arr.ncols |->
                     AsInt32(IF Len(sample) = 1 THEN sample[1] ELSE sample[k])]
       IN  [ok |-> TRUE, err |-> "",
            arr |-> [arr EXCEPT !.rows = [arr.rows EXCEPT ![r] = row]]]

\* ------------------------------------------------------------ vocabulary
PAD_TOKEN == "<PAD>"
UNK_TOKEN == "<UNK>"
SOS_TOKEN == "<SOS>"
EOS_TOKEN == "<EOS>"
SPECIALS == <<PAD_TOKEN, UNK_TOKEN, SOS_TOKEN, EOS_TOKEN>>

SeqRange(s) == {s[k] : k \in 1..Len(s)}

\* number of occurrences of t in the list
CountOf(toks, t) == Cardinality({k \in 1..Len(toks) : toks[k] = t})

\* Counter.items(): (token, count) pairs in order of first occurrence
RECURSIVE FirstSeen(_)
FirstSeen(toks) ==
  IF toks = << >> THEN << >>
  ELSE LET front == FirstSeen(SubSeq(toks, 1, Len(toks) - 1))
           t == toks[Len(toks)]
       IN  IF t \in SeqRange(front) THEN front ELSE Append(front, t)

CounterItems(toks) ==
  LET keys == FirstSeen(toks)
  IN  [k \in 1..Len(keys) |-> <<keys[k], CountOf(toks, keys[k])>>]

\* sorted(items, key=lambda x: x[1], reverse=True): stable, descending count
RECURSIVE InsertByCount(_, _)
InsertByCount(sorted, item) ==
  IF sorted = << >> THEN <<item>>
  ELSE IF sorted[Len(sorted)][2] >= item[2] THEN Append(sorted, item)
  ELSE Append(InsertByCount(SubSeq(sorted, 1, Len(sorted) - 1), item),
              sorted[Len(sorted)])

RECURSIVE SortedByCount(_)
SortedByCount(items) ==
  IF items = << >> THEN << >>
  ELSE InsertByCount(SortedByCount(SubSeq(items, 1, Len(items) - 1)),
                     items[Len(items)])

\* variant: the first TOP_TOKENS items of the counter, not sorted
TopItems_Unsorted(items) == PySlice(items, 0, TOP_TOKENS)

\* token_counter_sorted[:TOP_TOKENS] of the items of a counter
TopItems(items) == PySlice(SortedByCount(items), 0, TOP_TOKENS)

\* OrderedDict(token_counter_sorted[:TOP_TOKENS])
token_ordered_dict(toks) == TopItems(CounterItems(toks))

\* counter[t] of a Counter: 0 for a missing key
CounterGet(counter, t) ==
  IF \E k \in 1..Len(counter) : counter[k][1] = t
  THEN counter[CHOOSE k \in 1..Len(counter) : counter[k][1] = t][2]
  ELSE 0

\* variant: the count is set to 1
CounterAdd_Reset(counter, t) ==
  IF \E k \in 1..Len(counter) : counter[k][1] = t
  THEN [k \in 1..Len(counter) |-> IF counter[k][1] = t THEN <<t, 1>> ELSE counter[k]]
  ELSE Append(counter, <<t, 1>>)

\* token_counter[token] += 1: a new key goes to the end, an old one stays in place
CounterAdd(counter, t) ==
  IF \E k \in 1..Len(counter) : counter[k][1] = t
  THEN [k \in 1..Len(counter) |->
          IF counter[k][1] = t THEN <<t, counter[k][2] + 1>> ELSE counter[k]]
  ELSE Append(counter, <<t, 1>>)

\* for token in sentence_tokens: token_counter[token] += 1
RECURSIVE CounterUpdate(_, _)
CounterUpdate(counter, toks) ==
  IF toks = << >> THEN counter
  ELSE CounterAdd(CounterUpdate(counter, SubSeq(toks, 1, Len(toks) - 1)), toks[Len(toks)])

\* index of UNK_TOKEN among the specials, which come first
UnkIndex == CHOOSE k \in 0..(Len(SPECIALS) - 1) : SPECIALS[k + 1] = UNK_TOKEN

\* variant: the default index is that of the first special token
MakeVocabulary_DefaultFirst(toks) ==
  LET od   == token_ordered_dict(toks)
      kept == [k \in 1..Len(od) |-> od[k][1]]
  IN  [itos |-> SPECIALS \o kept, default_index |-> 0]

\* vocab(token_ordered_dict, specials=SPECIALS) then set_default_index(vocabulary[UNK_TOKEN])
MakeVocabulary(toks) ==
  LET od   == token_ordered_dict(toks)
      kept == [k \in 1..Len(od) |-> od[k][1]]
  IN  [itos |-> SPECIALS \o kept, default_index |-> UnkIndex]

\* the same two statements on the items of the counter process_reviews returned
VocabularyOf(counter) ==
  LET od   == TopItems(counter)
      kept == [k \in 1..Len(od) |-> od[k][1]]
  IN  [itos |-> SPECIALS \o kept, default_index |-> UnkIndex]

\* variant: no default index, an unknown token gives -1
LookupIndex_NoDefault(voc, t) ==
  IF t \in SeqRange(voc.itos)
  THEN (CHOOSE k \in 1..Len(voc.itos) : voc.itos[k] = t) - 1
  ELSE -1

\* variant: indices counted from 1
LookupIndex_OneBased(voc, t) ==
  IF t \in SeqRange(voc.itos)
  THEN CHOOSE k \in 1..Len(voc.itos) : voc.itos[k] = t
  ELSE voc.default_index

\* vocabulary[token]: its index, or the default index when it is unknown
LookupIndex(voc, t) ==
  IF t \in SeqRange(voc.itos)
  THEN (CHOOSE k \in 1..Len(voc.itos) : voc.itos[k] = t) - 1
  ELSE voc.default_index

\* vocabulary.lookup_indices(list)
lookup_indices(voc, toks) == [k \in 1..Len(toks) |-> LookupIndex(voc, toks[k])]

\* ------------------------------------------- sliding-window expressions
\* variant: one row too many
CbowShape_OneMore(n, w) == <<n - (2 * w) + 1, (2 * w) + 1>>

\* ( len(tokens)-(2*window_size) , (2*window_size)+1 )
CbowShape(n, w) == <<n - (2 * w), (2 * w) + 1>>

\* variant: one row too many
SkipgramShape_OneMore(n, w) == <<((n - (2 * w)) * (2 * w)) + 1, 2>>

\* ( (len(tokens)-(2*window_size))*(2*window_size), 2 )
SkipgramShape(n, w) == <<(n - (2 * w)) * (2 * w), 2>>

\* range(window_size, len(tokens)-window_size) as <<start, stop>>
CenterRange(n, w) == <<w, n - w>>

\* list[i] of Python is defined for -len <= i < len, else IndexError
PyIndexOk(s, i) == -Len(s) <= i /\ i < Len(s)
PyIndex(s, i) == IF i < 0 THEN s[i + Len(s) + 1] ELSE s[i + 1]

\* variant: the token before pos is taken as the center
CenterOf_Prev(toks, p) == PyIndex(toks, p - 1)

\* center = tokens[pos]
CenterOf(toks, p) == PyIndex(toks, p)

\* variant: the right half starts at pos itself
ContextOf_WithCenter(toks, p, w) == PySlice(toks, p - w, p) \o PySlice(toks, p, p + w)

\* variant: the left half is read one position too far to the left, by index
ContextOf_LeftShifted(toks, p, w) ==
  [k \in 1..w |-> PyIndex(toks, p - w - 2 + k)] \o PySlice(toks, p + 1, p + w + 1)

\* context = tokens[pos-window_size:pos] + tokens[pos+1:pos+window_size+1]
ContextOf(toks, p, w) == PySlice(toks, p - w, p) \o PySlice(toks, p + 1, p + w + 1)

\* variant: the center comes first in the sample
CbowSample_CenterFirst(voc, ctx, ctr) == lookup_indices(voc, <<ctr>>) \o lookup_indices(voc, ctx)

\* vocabulary.lookup_indices(context) + vocabulary.lookup_indices([center])
CbowSample(voc, ctx, ctr) == lookup_indices(voc, ctx) \o lookup_indices(voc, <<ctr>>)

\* variant: (context word, center) instead of (center, context word)
SkipgramSample_Swapped(voc, ctr, cw) == lookup_indices(voc, <<cw>>) \o lookup_indices(voc, <<ctr>>)

\* vocabulary.lookup_indices([center]) + vocabulary.lookup_indices([c])
SkipgramSample(voc, ctr, cw) == lookup_indices(voc, <<ctr>>) \o lookup_indices(voc, <<cw>>)

\* cbow[pos-window_size]
CbowRow(p, w) == p - w

\* variant: the group stride is window_size instead of 2*window_size
SkipgramRow_HalfStride(ci, w, k) == (ci * w) + k

\* skipgram[(center_idx*window_size*2)+idx]
SkipgramRow(ci, w, k) == (ci * w * 2) + k

\* row an index of numpy designates, negative ones counted from the end
RowOf(arr, i) == IF i < 0 THEN i + arr.nrows ELSE i

\* ------------------------------------------------------------------ state
VARIABLES
  tokens,       \* the list of all tokens
  vocabulary,   \* the vocab object
  window_size,  \* radius of the window
  cbow,         \* CBOW array
  skipgram,     \* Skip-gram array
  pc,           \* position in the cell
  err,          \* exception that ended the cell, "" if none
  rng,          \* <<start, stop>> of the range the outer loop enumerates
  it,           \* count of the outer enumerate
  center_idx, pos, center, context,
  jt,           \* count of the inner enumerate
  idx, c,
  visited,      \* values pos has taken in this run, in order
  cbow_log,     \* rows of cbow written in this run, in order
  skip_log,     \* <<row, pos>> for every skipgram row written in this run
  history,      \* per window_size: outcome of the first run that ended with it
  repeat,       \* this run's window_size was already run to its end before
  disk,         \* the two .npy files written by np.save
  cellin,       \* an identifier about to be stored in a cell
  cellout,      \* << >>, or <<value read back from the cell>>
  ref,          \* outcome of the run the later runs are compared with
  phase,        \* what the caller of the cell is doing
  corpus,       \* the caller's whole token list
  mark,         \* the caller's position in the corpus
  acc,          \* rows the caller has put together from the runs so far
  wk,           \* the workers of a partitioned scan
  nom,          \* the call of nominatim_search in progress
  pr            \* the call of process_reviews and the cells after it

vars == <<tokens, vocabulary, window_size, cbow, skipgram, pc, err, rng, it,
          center_idx, pos, center, context, jt, idx, c,
          visited, cbow_log, skip_log, history, repeat, disk,
          cellin, cellout, ref, phase, corpus, mark, acc, wk, nom, pr>>

\* state outside the sliding-window cell
storevars == <<cellin, cellout>>
callervars == <<ref, phase, corpus, mark, acc>>
extras == <<disk, storevars, callervars, wk, nom, pr>>

\* the names of the sliding-window cell but pc
cellnames == <<tokens, vocabulary, window_size, cbow, skipgram, err, rng, it,
               center_idx, pos, center, context, jt, idx, c,
               visited, cbow_log, skip_log, history, repeat>>

loopvars == <<center_idx, pos, center, context, idx, c>>
inputs == <<tokens, vocabulary, window_size>>
logs == <<visited, cbow_log, skip_log>>

\* variant: the count left by the previous loop is carried on
EnumStart_Stale == it

\* first count of enumerate(...)
EnumStart == 0

N == Len(tokens)

TokenLists == UNION {[1..n -> Alphabet] : n \in 0..MaxLen}

NoOutcome == [status |-> "none", err |-> "", cbow |-> NoArray, skipgram |-> NoArray]

\* what a run that ended leaves to its caller
Outcome(status, e, cb, sg) ==
  IF status = "done"
  THEN [status |-> "done", err |-> "", cbow |-> cb, skipgram |-> sg]
  ELSE [status |-> "error", err |-> e, cbow |-> NoArray, skipgram |-> NoArray]

Record(status, e, cb, sg) ==
  IF history[window_size] = NoOutcome
  THEN [history EXCEPT ![window_size] = Outcome(status, e, cb, sg)]
  ELSE history

\* nothing has been saved yet
NoFiles == [cbow |-> NoArray, skipgram |-> NoArray]

\* the names of the cell before its first run
InitCell ==
  /\ cbow = NoArray
  /\ skipgram = NoArray
  /\ pc = "alloc_cbow"
  /\ err = ""
  /\ rng = <<0, 0>>
  /\ it = 0
  /\ center_idx = -1 /\ pos = -1 /\ center = "" /\ context = << >>
  /\ jt = 0
  /\ idx = -1 /\ c = ""
  /\ visited = << >> /\ cbow_log = << >> /\ skip_log = << >>
  /\ history = [w \in WRange |-> NoOutcome]
  /\ repeat = FALSE

\* rows put together by a caller: none yet
NoRows == [cbow |-> << >>, skipgram |-> << >>, failed |-> FALSE, parts |-> << >>]

\* no call of nominatim_search has been made
\* a value of the geocoding functions: None, a list of n results, a JSON object
NoneValue == [kind |-> "None", n |-> 0]
ListValue(n) == [kind |-> "list", n |-> n]
DictValue == [kind |-> "dict", n |-> 0]

\* no call of nominatim_search or nominatim_reverse in progress
NoCall ==
  [pc |-> "idle", fn |-> "", query |-> "", result_format |-> "", limit |-> 0,
   query_string |-> << >>, url |-> << >>, r |-> NoneValue, gets |-> 0,
   printed |-> << >>, raised |-> "", ret |-> NoneValue]

\* process_reviews not called yet
NoReviews ==
  [pc |-> "idle", folders |-> << >>, considered_num_reviews |-> 0,
   folder |-> 0, entry |-> 0, tokens |-> << >>, token_counter |-> << >>,
   review_count |-> 0, progress_bar |-> 0, reviews |-> << >>, skipped |-> 0,
   early |-> FALSE]

InitExtras ==
  /\ disk = NoFiles
  /\ cellin = 0
  /\ cellout = << >>
  /\ ref = NoOutcome
  /\ phase = "single"
  /\ corpus = << >>
  /\ mark = 0
  /\ acc = NoRows
  /\ wk = << >>
  /\ nom = NoCall
  /\ pr = NoReviews

\* state after `window_size = ...` of the first run of the cell
Init ==
  /\ tokens \in TokenLists
  /\ vocabulary = MakeVocabulary(tokens)
  /\ window_size \in WRange
  /\ InitCell
  /\ InitExtras

\* cbow = np.zeros((len(tokens)-(2*window_size), (2*window_size)+1), dtype=np.int32)
AllocCbow ==
  /\ pc = "alloc_cbow"
  /\ LET shape == CbowShape(N, window_size)
         z == np_zeros(shape[1], shape[2])
     IN  IF z.ok
         THEN /\ cbow' = z.arr
              /\ pc' = "alloc_skipgram"
              /\ UNCHANGED <<err, history>>
         ELSE /\ pc' = "error"
              /\ err' = z.err
              /\ history' = Record("error", z.err, cbow, skipgram)
              /\ UNCHANGED cbow
  /\ UNCHANGED <<inputs, skipgram, rng, it, loopvars, jt, logs, repeat>>
  /\ UNCHANGED extras

\* skipgram = np.zeros(((len(tokens)-(2*window_size))*(2*window_size), 2), dtype=np.int32)
\* and the entry into the outer for: the range and its enumerate are created
AllocSkipgram ==
  /\ pc = "alloc_skipgram"
  /\ LET shape == SkipgramShape(N, window_size)
         z == np_zeros(shape[1], shape[2])
     IN  IF z.ok
         THEN /\ skipgram' = z.arr
              /\ rng' = CenterRange(N, window_size)
              /\ it' = EnumStart
              /\ pc' = "loop"
              /\ UNCHANGED <<err, history>>
         ELSE /\ pc' = "error"
              /\ err' = z.err
              /\ history' = Record("error", z.err, cbow, skipgram)
              /\ UNCHANGED <<skipgram, rng, it>>
  /\ UNCHANGED <<inputs, cbow, loopvars, jt, logs, repeat>>
  /\ UNCHANGED extras

\* one pass of the outer loop up to the inner for: center, context, the CBOW row
OuterIter ==
  /\ pc = "loop"
  /\ it < RangeLen(rng[1], rng[2])
  /\ LET p == RangeAt(rng[1], rng[2], it)
     IN  /\ center_idx' = it
         /\ pos' = p
         /\ it' = it + 1
         /\ visited' = Append(visited, p)
         /\ IF ~PyIndexOk(tokens, p)
            THEN /\ pc' = "error"
                 /\ err' = "IndexError"
                 /\ history' = Record("error", "IndexError", cbow, skipgram)
                 /\ UNCHANGED <<center, context, cbow, cbow_log, jt>>
            ELSE LET ctr    == CenterOf(tokens, p)
                     ctx    == ContextOf(tokens, p, window_size)
                     sample == CbowSample(vocabulary, ctx, ctr)
                     w      == np_setrow(cbow, CbowRow(p, window_size), sample)
                 IN  /\ center' = ctr
                     /\ context' = ctx
                     /\ IF w.ok
                        THEN /\ cbow' = w.arr
                             /\ cbow_log' = Append(cbow_log, RowOf(cbow, CbowRow(p, window_size)))
                             /\ jt' = EnumStart
                             /\ pc' = "inner"
                             /\ UNCHANGED <<err, history>>
                        ELSE /\ pc' = "error"
                             /\ err' = w.err
                             /\ history' = Record("error", w.err, cbow, skipgram)
                             /\ UNCHANGED <<cbow, cbow_log, jt>>
  /\ UNCHANGED <<inputs, skipgram, rng, idx, c, skip_log, repeat>>
  /\ UNCHANGED extras

\* one pass of the inner loop: one (center, context word) row of skipgram
InnerIter ==
  /\ pc = "inner"
  /\ jt < Len(context)
  /\ LET cw     == context[jt + 1]
         sample == SkipgramSample(vocabulary, center, cw)
         row    == SkipgramRow(center_idx, window_size, jt)
         w      == np_setrow(skipgram, row, sample)
     IN  /\ idx' = jt
         /\ c' = cw
         /\ jt' = jt + 1
         /\ IF w.ok
            THEN /\ skipgram' = w.arr
                 /\ skip_log' = Append(skip_log, <<RowOf(skipgram, row), pos>>)
                 /\ UNCHANGED <<pc, err, history>>
            ELSE /\ pc' = "error"
                 /\ err' = w.err
                 /\ history' = Record("error", w.err, cbow, skipgram)
                 /\ UNCHANGED <<skipgram, skip_log>>
  /\ UNCHANGED <<inputs, cbow, rng, it, center_idx, pos, center, context,
                 visited, cbow_log, repeat>>
  /\ UNCHANGED extras

\* the inner loop is exhausted: pbar.update(1), back to the outer for
InnerExit ==
  /\ pc = "inner"
  /\ jt >= Len(context)
  /\ pc' = "loop"
  /\ UNCHANGED <<inputs, cbow, skipgram, err, rng, it, loopvars, jt, logs,
                 history, repeat>>
  /\ UNCHANGED extras

\* the outer loop is exhausted: the cell ends
OuterExit ==
  /\ pc = "loop"
  /\ it >= RangeLen(rng[1], rng[2])
  /\ pc' = "done"
  /\ history' = Record("done", "", cbow, skipgram)
  /\ UNCHANGED <<inputs, cbow, skipgram, err, rng, it, loopvars, jt, logs, repeat>>
  /\ UNCHANGED extras

\* the cell is run again: `window_size = ...`; every other name keeps its value
Rerun ==
  /\ pc \in {"done", "error", "saved"}
  /\ \E w \in WRange :
       /\ window_size' = w
       /\ repeat' = (history[w] # NoOutcome)
  /\ pc' = "alloc_cbow"
  /\ err' = ""
  /\ visited' = << >> /\ cbow_log' = << >> /\ skip_log' = << >>
  /\ UNCHANGED <<tokens, vocabulary, cbow, skipgram, rng, it, loopvars, jt, history>>
  /\ UNCHANGED extras

Next ==
  \/ AllocCbow
  \/ AllocSkipgram
  \/ OuterIter
  \/ InnerIter
  \/ InnerExit
  \/ OuterExit
  \/ Rerun

Spec == Init /\ [][Next]_vars


\* ------------------------------------------------ saving the arrays
\* The cell with the two np.save calls follows the sliding-window cell: it runs
\* once that cell has ended without an exception.

\* np.save(corpus_base_path+'imdb-dataset-cbow.npy', cbow)
SaveCbow ==
  /\ pc = "done"
  /\ disk' = [disk EXCEPT !.cbow = cbow]
  /\ pc' = "save_skipgram"
  /\ UNCHANGED <<cellnames, storevars, callervars, wk, nom, pr>>

\* np.save(corpus_base_path+'imdb-dataset-skipgram.npy', skipgram)
SaveSkipgram ==
  /\ pc = "save_skipgram"
  /\ disk' = [disk EXCEPT !.skipgram = skipgram]
  /\ pc' = "saved"
  /\ UNCHANGED <<cellnames, storevars, callervars, wk, nom, pr>>

NextSave ==
  \/ Next
  \/ SaveCbow
  \/ SaveSkipgram

SpecSave == Init /\ [][NextSave]_vars

\* ------------------------------------------- storing one identifier
\* identifiers at both ends of 0..2^31-1
IdSamples == (0..StoreSpan) \cup {Int32Max - k : k \in 0..StoreSpan}

InitStore ==
  /\ tokens = << >>
  /\ vocabulary = MakeVocabulary(<< >>)
  /\ window_size = 0
  /\ InitCell
  /\ disk = NoFiles
  /\ cellin \in IdSamples
  /\ cellout = << >>
  /\ ref = NoOutcome /\ phase = "single" /\ corpus = << >> /\ mark = 0 /\ acc = NoRows
  /\ wk = << >>
  /\ nom = NoCall
  /\ pr = NoReviews

\* a row of an int32 array is assigned the identifier and read back
StoreCell ==
  /\ cellout = << >>
  /\ LET w == np_setrow(np_zeros(1, 1).arr, 0, <<cellin>>)
     IN  cellout' = <<w.arr.rows[1][1]>>
  /\ UNCHANGED <<cellnames, pc, disk, cellin, callervars, wk, nom, pr>>

SpecStore == InitStore /\ [][StoreCell]_vars

\* ------------------------------- the cell run again on a changed token list
\* every step of the sliding-window cell
CellStep ==
  \/ AllocCbow
  \/ AllocSkipgram
  \/ OuterIter
  \/ InnerIter
  \/ InnerExit
  \/ OuterExit

\* the names the caller of the cell leaves alone when it starts the next run
keptByCaller == <<vocabulary, window_size, cbow, skipgram, rng, it, loopvars, jt,
                  history, repeat, disk, storevars, wk, nom, pr>>

\* after the first run one token of the list is replaced and the cell is run
\* again, with the same vocabulary and window_size
Perturb ==
  /\ phase = "single"
  /\ pc \in {"done", "error"}
  /\ \E q \in 0..(N - 1) : \E t \in Alphabet \ {tokens[q + 1]} :
        /\ tokens' = [tokens EXCEPT ![q + 1] = t]
        /\ mark' = q
  /\ ref' = Outcome(pc, err, cbow, skipgram)
  /\ corpus' = tokens
  /\ phase' = "perturbed"
  /\ pc' = "alloc_cbow"
  /\ err' = ""
  /\ visited' = << >> /\ cbow_log' = << >> /\ skip_log' = << >>
  /\ UNCHANGED <<keptByCaller, acc>>

\* one run of the cell and nothing else; a cell that can take a step takes it
SpecRun == Init /\ [][CellStep]_vars /\ WF_vars(CellStep)

NextLocal ==
  \/ CellStep
  \/ Perturb

SpecLocal == Init /\ [][NextLocal]_vars

\* ------------------------------------------- the token list in blocks
\* A chunked variant of the generator: the whole list is run first (ref), then
\* consecutive blocks, each overlapping the previous one by 2*window_size tokens,
\* are run one after the other and their arrays are concatenated.

\* the rows of the run that just ended are appended to those gathered so far
Gather ==
  IF pc = "done" /\ ~acc.failed
  THEN [cbow |-> acc.cbow \o cbow.rows,
        skipgram |-> acc.skipgram \o skipgram.rows,
        failed |-> FALSE,
        parts |-> Append(acc.parts, Len(cbow.rows))]
  ELSE [acc EXCEPT !.failed = TRUE]

\* ends the first block may have: the whole list, or any end that leaves room
\* for an overlap of 2*window_size tokens
FirstStops == {N} \cup {e \in 0..N : window_size >= 0 /\ e >= 2 * window_size}

RestartCell ==
  /\ pc' = "alloc_cbow"
  /\ err' = ""
  /\ visited' = << >> /\ cbow_log' = << >> /\ skip_log' = << >>

\* the run on the whole list has ended: the first block is run
ChunkFirst ==
  /\ phase = "single"
  /\ pc \in {"done", "error"}
  /\ ref' = Outcome(pc, err, cbow, skipgram)
  /\ corpus' = tokens
  /\ \E e \in FirstStops :
        /\ tokens' = PySlice(tokens, 0, e)
        /\ mark' = e
  /\ phase' = "chunks"
  /\ acc' = NoRows
  /\ RestartCell
  /\ UNCHANGED keptByCaller

\* a block has ended and the corpus is not exhausted: the next block starts
\* 2*window_size tokens before the end of the previous one
ChunkNext ==
  /\ phase = "chunks"
  /\ pc \in {"done", "error"}
  /\ mark < Len(corpus)
  /\ acc' = Gather
  /\ \E e \in (mark + 1)..Len(corpus) :
        /\ tokens' = PySlice(corpus, mark - 2 * window_size, e)
        /\ mark' = e
  /\ RestartCell
  /\ UNCHANGED <<keptByCaller, ref, phase, corpus>>

\* the last block has ended
ChunkEnd ==
  /\ phase = "chunks"
  /\ pc \in {"done", "error"}
  /\ mark = Len(corpus)
  /\ acc' = Gather
  /\ phase' = "chunked"
  /\ UNCHANGED <<cellnames, pc, disk, storevars, wk, nom, pr, ref, corpus, mark>>

NextChunk ==
  \/ CellStep
  \/ ChunkFirst
  \/ ChunkNext
  \/ ChunkEnd

SpecChunk == Init /\ [][NextChunk]_vars

\* ------------------------------------------------ a partitioned scan
\* The range of centers is cut in two contiguous sub-ranges, each scanned by a
\* worker of its own that runs the loop of the cell on the shared token list and
\* fills arrays of its own; the arrays are concatenated in the order of the
\* sub-ranges.  The sequential run comes first, to compare with.
Workers == {1, 2}

\* token positions a center reads
WindowOf(p, w) == {<<"tokens", x>> : x \in (p - w)..(p + w)}

\* a worker about to scan range(lo, hi)
NewWorker(lo, hi, w) ==
  [lo |-> lo, hi |-> hi, pc |-> "loop", it |-> EnumStart, jt |-> EnumStart,
   center_idx |-> -1, pos |-> -1, center |-> "", context |-> << >>,
   cbow |-> np_zeros(CbowShape((hi - lo) + 2 * w, w)[1], CbowShape((hi - lo) + 2 * w, w)[2]).arr,
   skipgram |-> np_zeros(SkipgramShape((hi - lo) + 2 * w, w)[1], 2).arr,
   reads |-> {}, writes |-> {}]

\* the sequential run has ended normally: the range is cut and the workers start
Fork ==
  /\ phase = "single"
  /\ pc = "done"
  /\ \E cut \in rng[1]..Max2(rng[1], rng[2]) :
        wk' = [k \in Workers |->
                 IF k = 1 THEN NewWorker(rng[1], cut, window_size)
                 ELSE NewWorker(cut, Max2(rng[1], rng[2]), window_size)]
  /\ phase' = "forked"
  /\ UNCHANGED <<cellnames, pc, disk, storevars, nom, pr, ref, corpus, mark, acc>>

\* worker k: one pass of the outer loop up to the inner for
WorkerOuter(k) ==
  /\ phase = "forked"
  /\ wk[k].pc = "loop"
  /\ wk[k].it < RangeLen(wk[k].lo, wk[k].hi)
  /\ LET me     == wk[k]
         p      == RangeAt(me.lo, me.hi, me.it)
         ctr    == CenterOf(tokens, p)
         ctx    == ContextOf(tokens, p, window_size)
         sample == CbowSample(vocabulary, ctx, ctr)
         w      == np_setrow(me.cbow, CbowRow(p, me.lo), sample)
     IN  wk' = [wk EXCEPT ![k] =
                  [me EXCEPT !.center_idx = me.it, !.pos = p, !.it = me.it + 1,
                             !.center = ctr, !.context = ctx,
                             !.cbow = w.arr, !.jt = EnumStart,
                             !.pc = IF w.ok THEN "inner" ELSE "error",
                             !.reads = me.reads \cup WindowOf(p, window_size),
                             !.writes = me.writes \cup {<<"cbow", CbowRow(p, window_size)>>}]]
  /\ UNCHANGED <<cellnames, pc, disk, storevars, nom, pr, callervars>>

\* worker k: one pass of the inner loop
WorkerInner(k) ==
  /\ phase = "forked"
  /\ wk[k].pc = "inner"
  /\ wk[k].jt < Len(wk[k].context)
  /\ LET me     == wk[k]
         cw     == me.context[me.jt + 1]
         sample == SkipgramSample(vocabulary, me.center, cw)
         w      == np_setrow(me.skipgram, SkipgramRow(me.center_idx, window_size, me.jt), sample)
     IN  wk' = [wk EXCEPT ![k] =
                  [me EXCEPT !.jt = me.jt + 1,
                             !.skipgram = w.arr,
                             !.pc = IF w.ok THEN "inner" ELSE "error",
                             !.writes = me.writes \cup
                                {<<"skipgram",
                                   SkipgramRow(CbowRow(me.pos, window_size), window_size, me.jt)>>}]]
  /\ UNCHANGED <<cellnames, pc, disk, storevars, nom, pr, callervars>>

\* worker k: the inner loop is exhausted
WorkerInnerExit(k) ==
  /\ phase = "forked"
  /\ wk[k].pc = "inner"
  /\ wk[k].jt >= Len(wk[k].context)
  /\ wk' = [wk EXCEPT ![k].pc = "loop"]
  /\ UNCHANGED <<cellnames, pc, disk, storevars, nom, pr, callervars>>

\* worker k: the outer loop is exhausted
WorkerExit(k) ==
  /\ phase = "forked"
  /\ wk[k].pc = "loop"
  /\ wk[k].it >= RangeLen(wk[k].lo, wk[k].hi)
  /\ wk' = [wk EXCEPT ![k].pc = "done"]
  /\ UNCHANGED <<cellnames, pc, disk, storevars, nom, pr, callervars>>

\* both workers have ended: their arrays are concatenated in range order
Join ==
  /\ phase = "forked"
  /\ \A k \in Workers : wk[k].pc \in {"done", "error"}
  /\ acc' = [cbow |-> wk[1].cbow.rows \o wk[2].cbow.rows,
             skipgram |-> wk[1].skipgram.rows \o wk[2].skipgram.rows,
             failed |-> \E k \in Workers : wk[k].pc = "error",
             parts |-> <<Len(wk[1].cbow.rows), Len(wk[2].cbow.rows)>>]
  /\ phase' = "joined"
  /\ UNCHANGED <<cellnames, pc, disk, storevars, nom, pr, ref, corpus, mark, wk>>

NextPar ==
  \/ CellStep
  \/ Fork
  \/ \E k \in Workers : WorkerOuter(k)
  \/ \E k \in Workers : WorkerInner(k)
  \/ \E k \in Workers : WorkerInnerExit(k)
  \/ \E k \in Workers : WorkerExit(k)
  \/ Join

SpecPar == Init /\ [][NextPar]_vars

\* ------------------------------------------------ the geocoding calls
\* arguments: strings, None, and a string with a lone surrogate, which cannot
\* be encoded as UTF-8
NoneArg == "<None>"
Unencodable == "\\udc80"
Queries == {"a", "b c", Unencodable}
Formats == {"json", "JSON", "xml", NoneArg}
Limits == {"1", "2"}

\* str.lower() on the result formats
Lower(f) == IF f = "JSON" THEN "json" ELSE f

\* quote_plus(str(v)) of urlencode: None prints as 'None', a space becomes '+'
QuotePlus(v) ==
  IF v = NoneArg THEN "None"
  ELSE IF v = "b c" THEN "b+c"
  ELSE v

\* urlencode(params): the pairs key=value in the order of the dict
urlencode(params) == [i \in 1..Len(params) |-> <<params[i][1], QuotePlus(params[i][2])>>]

\* bodies a response can carry: a JSON array of at most `limit` results, a JSON
\* object, or text that is no JSON
Bodies(limit) ==
  {ListValue(n) : n \in 0..(IF limit = "2" THEN 2 ELSE 1)}
     \cup {DictValue, [kind |-> "text", n |-> 0]}

\* the classes the calls in the try block raise, all subclasses of Exception
ExceptionSubclasses ==
  {"UnicodeEncodeError", "ConnectionError", "AttributeError", "JSONDecodeError"}

\* variant: except requests.RequestException
Catches_RequestsOnly(e) == e = "ConnectionError"

\* except Exception
Catches(e) == e \in ExceptionSubclasses

\* e is raised in the try block: `except Exception as e: print(e); return None`
\* when the clause matches, else e leaves the function
Except(me, e) ==
  IF Catches(e)
  THEN [me EXCEPT !.raised = e, !.printed = Append(me.printed, e),
                  !.ret = NoneValue, !.pc = "returned"]
  ELSE [me EXCEPT !.raised = e, !.pc = "propagated"]

\* nominatim_search(query, result_format, limit) is called
CallSearch ==
  /\ nom.pc \in {"idle", "returned", "propagated"}
  /\ \E q \in Queries, f \in Formats, l \in Limits :
       nom' = [NoCall EXCEPT !.pc = "encode", !.fn = "search", !.query = q,
                             !.result_format = f, !.limit = l]
  /\ UNCHANGED <<cellnames, pc, disk, storevars, callervars, wk, pr>>

\* nominatim_reverse(lat, lon, result_format, zoom) is called
CallReverse ==
  /\ nom.pc \in {"idle", "returned", "propagated"}
  /\ \E q \in Queries, f \in Formats, z \in Limits :
       nom' = [NoCall EXCEPT !.pc = "encode", !.fn = "reverse", !.query = q,
                             !.result_format = f, !.limit = z]
  /\ UNCHANGED <<cellnames, pc, disk, storevars, callervars, wk, pr>>

\* variant: the format is examined before the request is sent
UrlEncode_CheckFirst ==
  /\ nom.pc = "encode"
  /\ nom' = [nom EXCEPT !.pc = "check"]
  /\ UNCHANGED <<cellnames, pc, disk, storevars, callervars, wk, pr>>

\* params = {...}; headers = {...}; query_string = urlencode(params)
UrlEncode ==
  /\ nom.pc = "encode"
  /\ LET params == IF nom.fn = "search"
                   THEN <<<<"q", nom.query>>, <<"format", nom.result_format>>,
                          <<"limit", nom.limit>>>>
                   ELSE <<<<"format", nom.result_format>>, <<"zoom", nom.limit>>>>
         raises == \E i \in 1..Len(params) : params[i][2] = Unencodable
     IN  nom' = IF raises THEN Except(nom, "UnicodeEncodeError")
                ELSE [nom EXCEPT !.query_string = urlencode(params), !.pc = "get"]
  /\ UNCHANGED <<cellnames, pc, disk, storevars, callervars, wk, pr>>

\* r = requests.get(URL.format(...), headers=headers)
Get ==
  /\ nom.pc = "get"
  /\ LET formatted == IF nom.fn = "search" THEN nom.query_string
                      ELSE <<<<"lat", nom.query>>, <<"lon", nom.query>>>> \o nom.query_string
         raises    == nom.fn = "reverse" /\ nom.query = Unencodable
     IN  IF raises THEN nom' = Except(nom, "UnicodeEncodeError")
         ELSE \/ nom' = Except([nom EXCEPT !.url = formatted, !.gets = nom.gets + 1],
                               "ConnectionError")
              \/ \E body \in Bodies(nom.limit) :
                   nom' = [nom EXCEPT !.url = formatted, !.gets = nom.gets + 1,
                                      !.r = body, !.pc = "check"]
  /\ UNCHANGED <<cellnames, pc, disk, storevars, callervars, wk, pr>>

\* the message of the else branch
Unsupported == "Error: unsupported result format (allowed: json)"

\* if result_format.lower() == 'json': ... else: print(...); return None
CheckFormat ==
  /\ nom.pc = "check"
  /\ nom' = IF nom.result_format = NoneArg THEN Except(nom, "AttributeError")
            ELSE IF Lower(nom.result_format) = "json" THEN [nom EXCEPT !.pc = "decode"]
            ELSE [nom EXCEPT !.printed = Append(nom.printed, Unsupported),
                             !.ret = NoneValue, !.pc = "returned"]
  /\ UNCHANGED <<cellnames, pc, disk, storevars, callervars, wk, pr>>

\* return r.json()
Decode ==
  /\ nom.pc = "decode"
  /\ nom' = IF nom.r.kind = "text" THEN Except(nom, "JSONDecodeError")
            ELSE [nom EXCEPT !.ret = nom.r, !.pc = "returned"]
  /\ UNCHANGED <<cellnames, pc, disk, storevars, callervars, wk, pr>>

InitNom ==
  /\ tokens = << >>
  /\ vocabulary = MakeVocabulary(<< >>)
  /\ window_size = 0
  /\ InitCell
  /\ InitExtras

NextNom ==
  \/ CallSearch
  \/ CallReverse
  \/ UrlEncode
  \/ Get
  \/ CheckFormat
  \/ Decode

SpecNom == InitNom /\ [][NextNom]_vars

\* ------------------------------------------------ reading the reviews
\* A folder is the sequence os.scandir yields: TRUE for a file, FALSE for a
\* directory.  What process_file returns for a file is chosen when it is called.
RECURSIVE SeqsUpTo(_, _)
SeqsUpTo(S, n) ==
  IF n = 0 THEN {<< >>}
  ELSE LET shorter == SeqsUpTo(S, n - 1)
       IN  shorter \cup {Append(q, x) : q \in shorter, x \in S}

FolderLists == SeqsUpTo(SeqsUpTo(BOOLEAN, MaxEntries), MaxFolders)

\* token lists process_file returns
FileTokenLists == {<< >>, <<"a">>, <<"b", "a">>, <<"c", "b", "b">>}

\* number of files in the folders
RECURSIVE NumFiles(_)
NumFiles(fs) ==
  IF fs = << >> THEN 0
  ELSE NumFiles(SubSeq(fs, 1, Len(fs) - 1))
         + Cardinality({k \in 1..Len(fs[Len(fs)]) : fs[Len(fs)][k]})

\* the lists of a sequence of lists, one after the other
RECURSIVE Flatten(_)
Flatten(ls) ==
  IF ls = << >> THEN << >>
  ELSE Flatten(SubSeq(ls, 1, Len(ls) - 1)) \o ls[Len(ls)]

InitReviews ==
  /\ tokens = << >>
  /\ vocabulary = MakeVocabulary(<< >>)
  /\ window_size = 0
  /\ InitCell
  /\ disk = NoFiles
  /\ cellin = 0
  /\ cellout = << >>
  /\ ref = NoOutcome /\ phase = "single" /\ corpus = << >> /\ mark = 0 /\ acc = NoRows
  /\ wk = << >>
  /\ nom = NoCall
  /\ \E fs \in FolderLists, n \in 0..MaxReviews :
       pr = [NoReviews EXCEPT !.folders = fs, !.considered_num_reviews = n]

\* process_reviews(folders) is entered: tokens = [], token_counter = Counter(),
\* review_count = 0, the progress bar is opened
ProcessReviewsCall ==
  /\ pr.pc = "idle"
  /\ pr' = [pr EXCEPT !.pc = "scan", !.folder = 1, !.entry = 0]
  /\ UNCHANGED <<cellnames, pc, disk, storevars, callervars, wk, nom>>

\* if file_name.is_file() is False: continue
SkipDirectory ==
  /\ pr.pc = "scan"
  /\ pr.folder <= Len(pr.folders)
  /\ pr.entry < Len(pr.folders[pr.folder])
  /\ ~pr.folders[pr.folder][pr.entry + 1]
  /\ pr' = [pr EXCEPT !.entry = pr.entry + 1, !.skipped = pr.skipped + 1]
  /\ UNCHANGED <<cellnames, pc, disk, storevars, callervars, wk, nom>>

\* one review: process_file, tokens.extend, the counts, the progress bar,
\* review_count and the early stop
ProcessReview ==
  /\ pr.pc = "scan"
  /\ pr.folder <= Len(pr.folders)
  /\ pr.entry < Len(pr.folders[pr.folder])
  /\ pr.folders[pr.folder][pr.entry + 1]
  /\ \E sentence_tokens \in FileTokenLists :
       pr' = [pr EXCEPT !.entry = pr.entry + 1,
                        !.tokens = pr.tokens \o sentence_tokens,
                        !.token_counter = CounterUpdate(pr.token_counter, sentence_tokens),
                        !.progress_bar = pr.progress_bar + 1,
                        !.review_count = pr.review_count + 1,
                        !.reviews = Append(pr.reviews, sentence_tokens),
                        !.early = pr.review_count + 1 >= pr.considered_num_reviews,
                        !.pc = IF pr.review_count + 1 >= pr.considered_num_reviews
                               THEN "returned" ELSE "scan"]
  /\ UNCHANGED <<cellnames, pc, disk, storevars, callervars, wk, nom>>

\* os.scandir(folder) is exhausted: the next folder
NextFolder ==
  /\ pr.pc = "scan"
  /\ pr.folder <= Len(pr.folders)
  /\ pr.entry >= Len(pr.folders[pr.folder])
  /\ pr' = [pr EXCEPT !.folder = pr.folder + 1, !.entry = 0]
  /\ UNCHANGED <<cellnames, pc, disk, storevars, callervars, wk, nom>>

\* the folders are exhausted: return tokens, token_counter
ReturnAtEnd ==
  /\ pr.pc = "scan"
  /\ pr.folder > Len(pr.folders)
  /\ pr' = [pr EXCEPT !.pc = "returned"]
  /\ UNCHANGED <<cellnames, pc, disk, storevars, callervars, wk, nom>>

\* tokens, token_counter = process_reviews(folders), then the two cells that
\* sort the counter and build the vocabulary
BuildVocabulary ==
  /\ pr.pc = "returned"
  /\ tokens' = pr.tokens
  /\ vocabulary' = VocabularyOf(pr.token_counter)
  /\ pr' = [pr EXCEPT !.pc = "built"]
  /\ UNCHANGED <<window_size, cbow, skipgram, pc, err, rng, it, loopvars, jt, logs,
                 history, repeat, disk, storevars, callervars, wk, nom>>

NextReviews ==
  \/ ProcessReviewsCall
  \/ SkipDirectory
  \/ ProcessReview
  \/ NextFolder
  \/ ReturnAtEnd
  \/ BuildVocabulary

SpecReviews == InitReviews /\ [][NextReviews]_vars

\* ------------------------------------------------- a worked example
\* a vocabulary of 13 retained tokens, indices 4..16 after the 4 special tokens,
\* as vocab(...) builds it from an ordered dict of 13 tokens
ScenarioVocabulary ==
  [itos |-> SPECIALS \o <<"t4", "t5", "t6", "t7", "t8", "t9", "t10", "t11",
                          "t12", "t13", "t14", "t15", "t16">>,
   default_index |-> UnkIndex]

\* seven tokens whose indices are 10, 11, ..., 16
ScenarioTokens == <<"t10", "t11", "t12", "t13", "t14", "t15", "t16">>

InitScenario ==
  /\ tokens = ScenarioTokens
  /\ vocabulary = ScenarioVocabulary
  /\ window_size \in WRange
  /\ InitCell
  /\ InitExtras

SpecScenario == InitScenario /\ [][Next]_vars

\* ---------------------------------------------------------------- claims
\* 0-based reading of the arrays and of the token list
Cell(arr, i, j) == arr.rows[i + 1][j + 1]
Tok(p) == tokens[p + 1]
Id(t) == LookupIndex(vocabulary, t)
Ended == pc \in {"done", "error"}
W == window_size

\* C1: when the cell ends with window_size >= 1 and N >= 2*window_size+1, cbow has
\* exactly N-2w rows of 2w+1 columns and skipgram exactly (N-2w)*2w rows of 2 columns
C1_Shapes ==
  (pc = "done" /\ W >= 1 /\ N >= 2 * W + 1) =>
     /\ cbow.nrows = N - 2 * W
     /\ cbow.ncols = 2 * W + 1
     /\ Len(cbow.rows) = N - 2 * W
     /\ \A r \in 1..Len(cbow.rows) : Len(cbow.rows[r]) = 2 * W + 1
     /\ skipgram.nrows = (N - 2 * W) * 2 * W
     /\ skipgram.ncols = 2
     /\ Len(skipgram.rows) = (N - 2 * W) * 2 * W
     /\ \A r \in 1..Len(skipgram.rows) : Len(skipgram.rows[r]) = 2

C1_Witness ==
  pc = "done" /\ W >= 1 /\ N >= 2 * W + 1 /\ Len(cbow.rows) >= 2 /\ Len(skipgram.rows) >= 4

\* C2 (as claimed): whenever window_size >= 1 and N < 2*window_size+1, the cell ends
\* without an error and both arrays have zero rows
C2_ShortInputEmpty ==
  (Ended /\ W >= 1 /\ N < 2 * W + 1) =>
     (pc = "done" /\ cbow.nrows = 0 /\ skipgram.nrows = 0)

\* C3: when the cell ends normally, the last column of every CBOW row i holds the
\* identifier of the token at position i+w
C3_CenterColumn ==
  pc = "done" =>
     \A i \in 0..(N - 2 * W - 1) : Cell(cbow, i, 2 * W) = Id(Tok(i + W))

C3_Witness ==
  /\ pc = "done" /\ W >= 1 /\ cbow.nrows >= 2
  /\ Cell(cbow, 0, 2 * W) # Cell(cbow, 1, 2 * W)
  /\ Cell(cbow, 0, 2 * W) = Id(Tok(W))

\* C4: every CBOW row i holds in columns 0..w-1 the identifiers of the tokens at
\* positions i..i+w-1 (p-w..p-1) and in columns w..2w-1 those at i+w+1..i+2w
\* (p+1..p+w); the context has exactly 2w entries and the center is not among them
C4_ContextColumns ==
  /\ pc = "inner" => Len(context) = 2 * W
  /\ pc = "done" =>
       \A i \in 0..(N - 2 * W - 1) : \A j \in 0..(W - 1) :
          /\ Cell(cbow, i, j) = Id(Tok(i + j))
          /\ Cell(cbow, i, W + j) = Id(Tok(i + W + 1 + j))

C4_Witness ==
  /\ pc = "done" /\ W >= 1 /\ cbow.nrows >= 1
  /\ Cell(cbow, 0, 0) # Cell(cbow, 0, 2 * W)
  /\ Cell(cbow, 0, W) # Cell(cbow, 0, 2 * W)

\* C5: Skip-gram row i*2w+j is (CBOW[i][2w], CBOW[i][j]) for every group i and
\* every j in 0..2w-1
C5_SkipgramFromCbow ==
  pc = "done" =>
     \A i \in 0..(N - 2 * W - 1) : \A j \in 0..(2 * W - 1) :
        skipgram.rows[i * 2 * W + j + 1] = <<Cell(cbow, i, 2 * W), Cell(cbow, i, j)>>

C5_Witness ==
  /\ pc = "done" /\ W >= 1 /\ cbow.nrows >= 2
  /\ skipgram.rows[2 * W + 1] = <<Cell(cbow, 1, 2 * W), Cell(cbow, 1, 0)>>
  /\ Cell(cbow, 1, 2 * W) # Cell(cbow, 1, 0)

\* C6 (as claimed): whenever window_size <= 0 the cell ends with an error
\* instead of producing arrays
C6_NonPositiveRadiusFails ==
  (Ended /\ W <= 0) => (pc = "error" /\ err # "")

\* tokens that have no entry of their own in the vocabulary
Unknown(t) == t \notin SeqRange(vocabulary.itos)
HasUnknown == \E k \in 1..N : Unknown(tokens[k])

\* position of the token a CBOW cell (i, j) is taken from
CbowSource(i, j) == IF j = 2 * W THEN i + W ELSE IF j < W THEN i + j ELSE i + j + 1

C8_AscendingCenters ==
  /\ \A k \in 1..Len(visited) : visited[k] = W + k - 1
  /\ Len(cbow_log) <= Len(visited)
  /\ \A k \in 1..Len(cbow_log) : cbow_log[k] = k - 1 /\ cbow_log[k] + W = visited[k]
  /\ \A k \in 1..Len(skip_log) : skip_log[k][1] = k - 1
  /\ \A a, b \in 1..Len(skip_log) :
        skip_log[a][1] < skip_log[b][1] => skip_log[a][2] <= skip_log[b][2]
  /\ pc = "done" =>
        /\ Len(visited) = N - 2 * W
        /\ Len(cbow_log) = N - 2 * W
        /\ Len(skip_log) = (N - 2 * W) * 2 * W

C8_Witness ==
  /\ pc = "done" /\ W >= 1
  /\ Len(visited) >= 2 /\ visited[1] = W /\ visited[Len(visited)] = N - W - 1
  /\ Len(skip_log) >= 4

\* C9: a run of the cell that ends leaves the same outcome (arrays or error) as
\* the first run with the same tokens and window_size, whatever ran in between
C9_SameOutcome ==
  Ended => Outcome(pc, err, cbow, skipgram) = history[W]

C9_Witness ==
  /\ pc = "done" /\ repeat /\ W >= 1 /\ cbow.nrows >= 1
  /\ \E w2 \in WRange : w2 # W /\ history[w2].status = "done" /\ history[w2].cbow.nrows >= 1
  /\ \E w3 \in WRange : history[w3].status = "error"

\* rows in which two arrays of the same shape differ
ChangedRows(a, b) == {r \in 1..Len(a.rows) : a.rows[r] # b.rows[r]}

\* C10: from the allocation to the end of the scan no step changes the token
\* list, the window radius or the vocabulary; a step of the scan changes at most
\* one row of one of the two arrays and nothing of their shapes
C10_InputsUnchanged ==
  [][ (pc \in {"alloc_cbow", "alloc_skipgram", "loop", "inner"} =>
         /\ tokens' = tokens
         /\ window_size' = window_size
         /\ vocabulary' = vocabulary)
      /\ (pc \in {"loop", "inner"} =>
         /\ cbow'.nrows = cbow.nrows /\ cbow'.ncols = cbow.ncols
         /\ skipgram'.nrows = skipgram.nrows /\ skipgram'.ncols = skipgram.ncols
         /\ Len(cbow'.rows) = Len(cbow.rows)
         /\ Len(skipgram'.rows) = Len(skipgram.rows)
         /\ Cardinality(ChangedRows(cbow, cbow'))
              + Cardinality(ChangedRows(skipgram, skipgram')) <= 1) ]_vars

C10_Witness ==
  /\ pc = "done" /\ W >= 1 /\ N = 2 * W + 2
  /\ Cardinality(ChangedRows(cbow, np_zeros(cbow.nrows, cbow.ncols).arr)) = 2
  /\ Cardinality(ChangedRows(skipgram, np_zeros(skipgram.nrows, skipgram.ncols).arr)) = 4 * W

\* tokens left out of the top TOP_TOKENS of the counter
Retained == {token_ordered_dict(tokens)[k][1] : k \in 1..Len(token_ordered_dict(tokens))}
NotRetained(t) == t \notin Retained

\* C13: every token that is not among the retained most frequent ones is stored
\* as the index of <UNK>, as a center and as a context word, in both arrays; the
\* rows are emitted all the same, so the shapes depend on N and window_size only
C13_UnknownToUnk ==
  pc = "done" =>
     /\ Len(cbow.rows) = N - 2 * W
     /\ Len(skipgram.rows) = (N - 2 * W) * 2 * W
     /\ \A i \in 0..(N - 2 * W - 1) :
          /\ NotRetained(Tok(i + W)) =>
                /\ Cell(cbow, i, 2 * W) = UnkIndex
                /\ \A k \in 0..(2 * W - 1) : Cell(skipgram, i * 2 * W + k, 0) = UnkIndex
          /\ \A j \in 0..(2 * W - 1) :
                NotRetained(Tok(CbowSource(i, j))) =>
                   /\ Cell(cbow, i, j) = UnkIndex
                   /\ Cell(skipgram, i * 2 * W + j, 1) = UnkIndex

C13_Witness ==
  /\ pc = "done" /\ W >= 1 /\ cbow.nrows >= 2
  /\ Cardinality({k \in 1..N : NotRetained(tokens[k])}) >= 2
  /\ NotRetained(Tok(W)) /\ NotRetained(Tok(0)) /\ Tok(W) # Tok(0)
  /\ Cell(cbow, 0, 0) = UnkIndex /\ Cell(cbow, 0, 2 * W) = UnkIndex

\* size of the vocabulary
V == Len(vocabulary.itos)

\* C14: V is the number of retained tokens plus the 4 special tokens, and every
\* cell of the finished arrays is in 0..V-1
C14_CellsInRange ==
  pc = "done" =>
     /\ V = Cardinality(Retained) + 4
     /\ \A r \in 1..Len(cbow.rows) : \A k \in 1..cbow.ncols :
           cbow.rows[r][k] \in 0..(V - 1)
     /\ \A r \in 1..Len(skipgram.rows) : \A k \in 1..skipgram.ncols :
           skipgram.rows[r][k] \in 0..(V - 1)

C14_Witness ==
  /\ pc = "done" /\ W >= 1 /\ cbow.nrows >= 1
  /\ \E j \in 0..(2 * W) : Cell(cbow, 0, j) = V - 1
  /\ \E j \in 0..(2 * W) : Cell(cbow, 0, j) < V - 1

\* C20: with window_size >= 1 and N >= 2*window_size+1 every write index is inside
\* the array, no row is written twice, and when the scan ends every row of both
\* arrays has been written (none is left all zero); the Skip-gram row of center
\* number ci and context slot k is ci*2w+k
C20_WrittenOnce ==
  (W >= 1 /\ N >= 2 * W + 1 /\ pc \in {"loop", "inner", "done", "error"}) =>
     /\ pc # "error"
     /\ \A k \in 1..Len(cbow_log) : cbow_log[k] \in 0..(cbow.nrows - 1)
     /\ \A a, b \in 1..Len(cbow_log) : a # b => cbow_log[a] # cbow_log[b]
     /\ \A k \in 1..Len(skip_log) : skip_log[k][1] \in 0..(skipgram.nrows - 1)
     /\ \A a, b \in 1..Len(skip_log) : a # b => skip_log[a][1] # skip_log[b][1]
     /\ \A k \in 1..Len(skip_log) :
           skip_log[k][1] = (skip_log[k][2] - W) * 2 * W + ((k - 1) % (2 * W))
     /\ pc = "done" =>
           /\ {cbow_log[k] : k \in 1..Len(cbow_log)} = 0..(cbow.nrows - 1)
           /\ {skip_log[k][1] : k \in 1..Len(skip_log)} = 0..(skipgram.nrows - 1)
           /\ \A r \in 1..Len(cbow.rows) : \E k \in 1..cbow.ncols : cbow.rows[r][k] # 0
           /\ \A r \in 1..Len(skipgram.rows) : \E k \in 1..2 : skipgram.rows[r][k] # 0

C20_Witness ==
  /\ pc = "done" /\ W >= 1 /\ N >= 2 * W + 1
  /\ Len(cbow_log) >= 2 /\ Len(skip_log) >= 4
  /\ Len(skip_log) = skipgram.nrows

\* C16: for tokens resolved to [10,11,12,13,14,15,16] and window_size = 2 the CBOW
\* array is [10,11,13,14,12], [11,12,14,15,13], [12,13,15,16,14] and the Skip-gram
\* array the 12 rows (12,10),(12,11),(12,13),(12,14), then the groups of 13 and 14
C16_Scenario ==
  (pc = "done" /\ W = 2 /\ lookup_indices(vocabulary, tokens) = <<10, 11, 12, 13, 14, 15, 16>>) =>
     /\ cbow.rows = << <<10, 11, 13, 14, 12>>,
                      <<11, 12, 14, 15, 13>>,
                      <<12, 13, 15, 16, 14>> >>
     /\ skipgram.rows = << <<12, 10>>, <<12, 11>>, <<12, 13>>, <<12, 14>>,
                          <<13, 11>>, <<13, 12>>, <<13, 14>>, <<13, 15>>,
                          <<14, 12>>, <<14, 13>>, <<14, 15>>, <<14, 16>> >>

C16_Witness ==
  /\ pc = "done" /\ W = 2
  /\ lookup_indices(vocabulary, tokens) = <<10, 11, 12, 13, 14, 15, 16>>
  /\ Len(cbow.rows) = 3 /\ Len(skipgram.rows) = 12

C15_StoreKeepsValue ==
  cellout # << >> => (cellin \in 0..Int32Max /\ cellout[1] = cellin)

C15_Witness ==
  cellout # << >> /\ cellin = Int32Max /\ cellout[1] = Int32Max

\* center of row i is farther than window_size from the replaced position
Far(i) == (i + W) - mark > W \/ mark - (i + W) > W

\* C19: two runs on token lists that differ only at position mark, same
\* window_size: every CBOW row and Skip-gram group whose center is farther than
\* window_size from mark is the same in both runs
C19_Locality ==
  (phase = "perturbed" /\ Ended) =>
     /\ (pc = "done") = (ref.status = "done")
     /\ pc = "done" =>
          /\ Len(cbow.rows) = Len(ref.cbow.rows)
          /\ Len(skipgram.rows) = Len(ref.skipgram.rows)
          /\ \A i \in 0..(N - 2 * W - 1) :
                Far(i) =>
                   /\ cbow.rows[i + 1] = ref.cbow.rows[i + 1]
                   /\ \A j \in 0..(2 * W - 1) :
                         skipgram.rows[i * 2 * W + j + 1] = ref.skipgram.rows[i * 2 * W + j + 1]

C19_Witness ==
  /\ phase = "perturbed" /\ pc = "done" /\ W >= 1
  /\ \E i \in 0..(N - 2 * W - 1) : Far(i)
  /\ \E i \in 0..(N - 2 * W - 1) : ~Far(i) /\ cbow.rows[i + 1] # ref.cbow.rows[i + 1]

\* C12: the arrays concatenated from the runs on consecutive blocks, each
\* overlapping the previous one by 2*window_size tokens, are the arrays of the run
\* on the whole list (and the blocks fail exactly when the whole list fails)
C12_ChunkedEqualsWhole ==
  phase = "chunked" =>
     IF ref.status = "done"
     THEN /\ ~acc.failed
          /\ acc.cbow = ref.cbow.rows
          /\ acc.skipgram = ref.skipgram.rows
     ELSE acc.failed

C12_Witness ==
  /\ phase = "chunked" /\ W >= 1 /\ ref.status = "done"
  /\ Len(acc.parts) >= 2
  /\ \A k \in 1..Len(acc.parts) : acc.parts[k] >= 1
  /\ acc.cbow = ref.cbow.rows

\* C11: whatever the cut of the range of centers and the interleaving of the two
\* workers, no worker writes a row the other writes or a location the other
\* reads, and the arrays concatenated in range order are those of the sequential
\* scan
C11_PartitionedEqualsSequential ==
  /\ phase \in {"forked", "joined"} =>
        \A a, b \in Workers :
           a # b => wk[a].writes \cap (wk[b].writes \cup wk[b].reads) = {}
  /\ phase = "joined" =>
        /\ ~acc.failed
        /\ acc.cbow = cbow.rows
        /\ acc.skipgram = skipgram.rows

C11_Witness ==
  /\ phase = "joined" /\ W >= 1
  /\ acc.parts[1] >= 1 /\ acc.parts[2] >= 1
  /\ acc.cbow = cbow.rows /\ Len(acc.skipgram) >= 4
  /\ wk[1].reads \cap wk[2].reads # {}

\* C17: whatever the query, the result format, the limit and the outcome of the
\* HTTP request, the value nominatim_search returns is a list
C17_SearchReturnsList ==
  (nom.pc = "returned" /\ nom.fn = "search") => nom.ret.kind = "list"

\* C24: when process_reviews has returned, the number of files it passed to
\* process_file is at most considered_num_reviews and equals the smaller of
\* considered_num_reviews and the number of files; directories are not counted
C24_AtMostConsidered ==
  /\ pr.review_count = Len(pr.reviews)
  /\ pr.pc \in {"returned", "built"} =>
        /\ Len(pr.reviews) <= pr.considered_num_reviews
        /\ Len(pr.reviews) = Min2(pr.considered_num_reviews, NumFiles(pr.folders))

\* C25: after every review and at either return, the token list is the
\* concatenation of the token lists of the reviews in processing order and the
\* counter holds, for every token, its number of occurrences in the token list
C25_CounterAgrees ==
  pr.pc \in {"scan", "returned", "built"} =>
     /\ pr.tokens = Flatten(pr.reviews)
     /\ \A t \in Alphabet : CounterGet(pr.token_counter, t) = CountOf(pr.tokens, t)
     /\ \A k \in 1..Len(pr.token_counter) :
           /\ pr.token_counter[k][2] = CountOf(pr.tokens, pr.token_counter[k][1])
           /\ pr.token_counter[k][2] >= 1
     /\ pr.token_counter = CounterItems(pr.tokens)

C25_Witness ==
  /\ pr.pc = "returned" /\ pr.early
  /\ Len(pr.reviews) = 2
  /\ NumFiles(pr.folders) > 2
  /\ CounterGet(pr.token_counter, "b") = 3
  /\ CounterGet(pr.token_counter, "a") = 1
  /\ pr.skipped >= 1

\* the non-special entries of the vocabulary
KeptTokens == {vocabulary.itos[k] : k \in (Len(SPECIALS) + 1)..Len(vocabulary.itos)}

\* position of the first occurrence of t in the token stream
FirstPosition(t) == CHOOSE k \in 1..Len(tokens) :
                      tokens[k] = t /\ \A j \in 1..(k - 1) : tokens[j] # t

\* C21: the vocabulary built from the counter keeps at most TOP_TOKENS
\* non-special tokens, all of the token stream; a kept token occurs at least as
\* often as every token left out, and of two tokens of the same count the one
\* seen first is the one kept
C21_MostFrequentKept ==
  pr.pc = "built" =>
     /\ Len(vocabulary.itos) - Len(SPECIALS) <= TOP_TOKENS
     /\ Cardinality(KeptTokens) = Len(vocabulary.itos) - Len(SPECIALS)
     /\ KeptTokens \subseteq SeqRange(tokens)
     /\ \A t \in KeptTokens : \A u \in SeqRange(tokens) \ KeptTokens :
           /\ CountOf(tokens, t) >= CountOf(tokens, u)
           /\ CountOf(tokens, t) = CountOf(tokens, u) => FirstPosition(t) < FirstPosition(u)

C21_Witness ==
  /\ pr.pc = "built"
  /\ Cardinality(KeptTokens) = TOP_TOKENS
  /\ \E t, t2 \in KeptTokens : \E u, v \in SeqRange(tokens) \ KeptTokens :
        /\ CountOf(tokens, t) = CountOf(tokens, u)
        /\ CountOf(tokens, t2) > CountOf(tokens, v)
        /\ FirstPosition(v) < FirstPosition(t2)

C23_RequestBeforeFormatCheck ==
  /\ nom.gets <= 1
  /\ nom.pc \in {"check", "decode"} => nom.gets = 1
  /\ (nom.pc = "returned" /\ Unsupported \in SeqRange(nom.printed)) => nom.gets = 1
  /\ (nom.pc = "returned" /\ nom.gets = 0) => nom.raised # ""
  /\ (nom.pc = "returned" /\ nom.raised \in {"AttributeError", "JSONDecodeError"}) =>
        nom.gets = 1

C23_Witness ==
  /\ nom.pc = "returned" /\ nom.fn = "search"
  /\ nom.result_format = "xml"
  /\ nom.printed = <<Unsupported>>
  /\ nom.gets = 1 /\ nom.r.kind = "list"

\* number of inner iterations made for the center at position p
InnerCount(p) == Cardinality({k \in 1..Len(skip_log) : skip_log[k][2] = p})

\* both arrays are complete after N-2w outer and 2w inner iterations per center
Complete ==
  /\ pc = "done"
  /\ Len(visited) = N - 2 * W
  /\ \A p \in W..(N - W - 1) : InnerCount(p) = 2 * W
  /\ Len(cbow_log) = cbow.nrows
  /\ Len(skip_log) = skipgram.nrows

\* C26: with window_size >= 1 and N >= 2*window_size+1 the run of the cell ends:
\* it reaches the state where the outer loop has made exactly N-2w iterations,
\* the inner loop exactly 2w for every center, and both arrays are complete; the
\* loops never make more iterations than that
C26_Terminates ==
  /\ (W >= 1 /\ N >= 2 * W + 1) ~> Complete
  /\ []((W >= 1 /\ N >= 2 * W + 1) =>
          /\ Len(visited) <= N - 2 * W
          /\ \A p \in W..(N - W - 1) : InnerCount(p) <= 2 * W)

C26_Witness ==
  /\ Complete /\ W >= 2 /\ N >= 2 * W + 1
  /\ Len(visited) = 1 /\ InnerCount(W) = 4

====
